---- MODULE Spec2Model ----
(***************************************************************************)
(* Lead-capture serverless endpoint of the Squamish neighbourhoods guide.  *)
(* Two deployment variants of api/submit-lead.js are modelled:             *)
(*   "emailOnly"   - src/api/submit-lead.js (submission only, e-mail is    *)
(*                   format-checked, no phone);                            *)
(*   "multiplexed" - src/unnamed/part_000 (action discriminator, SMS       *)
(*                   verification, phone required).                        *)
(* One handler invocation is followed from the arrival of the request to   *)
(* its response; the steps are the synchronous stretches between awaits,   *)
(* and the completions of the outbound fetch calls are separate steps.     *)
(* process.env is read where the code reads it: the value of a variable    *)
(* is drawn at the statement that reads it and kept for the invocation.    *)
(* codesSentTo is a history variable: the phones a verification code was   *)
(* generated for, over all invocations so far.  The code keeps no such     *)
(* record; no action reads it.                                             *)
(***************************************************************************)
EXTENDS Integers, Sequences, FiniteSets, TLC

VARIABLES variant, codesSentTo, req, pc, env, res, leadData, tokenCount,
          verificationCode, codeCount,
          lofty, loftyCalls, loftyPayload,
          resend, resendCalls, resendPayload,
          twilio, twilioCalls, twilioPayload

vars == <<variant, codesSentTo, req, pc, env, res, leadData, tokenCount,
          verificationCode, codeCount,
          lofty, loftyCalls, loftyPayload,
          resend, resendCalls, resendPayload,
          twilio, twilioCalls, twilioPayload>>

----------------------------------------------------------------------------
(* Bounds of the model *)

\* longest local part, domain and top-level part of the e-mails submitted
MaxPartLen == 1
\* resolution of Math.random(): its value is k / RandDenom, k in 0..RandDenom-1
RandDenom == 1000

----------------------------------------------------------------------------
(* JavaScript values *)

\* a field of the JSON body: Undefined when absent, Str(s) when a string
Undefined == <<>>
Str(s) == <<s>>
\* !x is true of undefined and of the empty string
Truthy(x) == x # Undefined /\ x[1] # <<>>

RECURSIVE Rep(_, _)
Rep(c, n) == IF n = 0 THEN <<>> ELSE Append(Rep(c, n - 1), c)

RECURSIVE SeqsUpTo(_, _)
SeqsUpTo(S, n) ==
  IF n = 0 THEN {<<>>}
  ELSE LET P == SeqsUpTo(S, n - 1)
       IN  P \cup {Append(p, c) : p \in P, c \in S}

Variants == {"emailOnly", "multiplexed"}
Methods == {"POST", "GET", "OPTIONS"}

----------------------------------------------------------------------------
(* Inputs *)

Whitespace == {" "}
PartChars == {"a"}
Parts == SeqsUpTo(PartChars, MaxPartLen)
AtSeps == {<<>>, <<"@">>, <<" ", "@">>, <<"@", " ">>, <<"@", "@">>}
DotSeps == {<<>>, <<".">>, <<".", " ">>, <<" ", ".">>}
EmailStrings ==
  {l \o s1 \o d \o s2 \o t :
     l \in Parts, s1 \in AtSeps, d \in Parts, s2 \in DotSeps, t \in Parts}
Emails == {Undefined} \cup {Str(s) : s \in EmailStrings}

Names == {Undefined, Str(<<>>), Str(<<"J">>)}

PhoneLen == 10
DigitChars == {"0", "1", "2", "3", "4", "5", "6", "7", "8", "9"}
PhoneStrings ==
  {<<>>, Rep("5", PhoneLen), Rep("5", PhoneLen - 1),
   Append(Rep("5", PhoneLen - 1), "x")}
Phones == {Undefined} \cup {Str(p) : p \in PhoneStrings}

Actions == {Undefined, Str("sendVerification"), Str("submitLead"), Str("other")}

Body(a, f, l, e, p) ==
  [action |-> a, firstName |-> f, lastName |-> l, email |-> e, phone |-> p]

NoBody == Body(Undefined, Undefined, Undefined, Undefined, Undefined)

\* The bodies a client of the variant sends: the fields the variant's code
\* reads on the path the body takes; a field no statement reads is absent.
Bodies(v) ==
  IF v = "emailOnly"
  THEN {Body(Undefined, f, l, e, Undefined) :
          f \in Names, l \in Names, e \in Emails}
  ELSE {Body(a, Undefined, Undefined, Undefined, Undefined) :
          a \in {Undefined, Str("other")}}
       \cup {Body(Str("sendVerification"), Undefined, Undefined, Undefined, p) :
          p \in Phones}
       \cup {Body(Str("submitLead"), f, l, e, p) :
          f \in Names, l \in Names, e \in Emails, p \in Phones}

Requests(v) ==
  {[method |-> m, hasBody |-> FALSE, body |-> NoBody] : m \in Methods}
  \cup {[method |-> "POST", hasBody |-> TRUE, body |-> b] : b \in Bodies(v)}
  \cup {[method |-> m, hasBody |-> TRUE,
         body |-> Body(Str("submitLead"), Str(<<"J">>), Str(<<"J">>),
                       Str(<<"a", "@", "a", ".", "a">>),
                       Str(Rep("5", PhoneLen)))] :
          m \in Methods \ {"POST"}}

NoRequest == [method |-> "none", hasBody |-> FALSE, body |-> NoBody]

EnvNames == {"GAMMA_URL", "LOFTY_API_KEY", "RESEND_API_KEY",
             "TWILIO_ACCOUNT_SID", "TWILIO_AUTH_TOKEN", "TWILIO_PHONE_NUMBER"}
EnvValues == {"set", "unset"}
EnvUnread == [n \in EnvNames |-> "unread"]

Timestamps == {"ts"}
RandomStrs == {"r1", "r2"}

\* outcomes of a fetch that completes
Outcomes == {"ok", "http_error", "network_error"}
Failed == {"http_error", "network_error"}

----------------------------------------------------------------------------
(* The response object *)

NoResponse == [headers |-> {}, status |-> 0, body |-> <<>>, sends |-> 0]

SetHeaders(r, hs) == [r EXCEPT !.headers = @ \cup hs]

\* res.status(s).json(b)
Send(r, s, b) == [r EXCEPT !.status = s, !.body = b, !.sends = @ + 1]

CorsHeaders ==
  {<<"Access-Control-Allow-Origin", "*">>,
   <<"Access-Control-Allow-Methods", "POST">>,
   <<"Access-Control-Allow-Headers", "Content-Type">>}

ErrorBody(msg) == [error |-> msg]

\* no lead record has been built
NoLead ==
  [firstName |-> Undefined, lastName |-> Undefined, email |-> Undefined,
   phone |-> Undefined, accessToken |-> <<>>, accessUrl |-> <<>>]

----------------------------------------------------------------------------
Init ==
  /\ variant \in Variants
  /\ codesSentTo = {}
  /\ req = NoRequest
  /\ pc = "idle"
  /\ env = EnvUnread
  /\ res = NoResponse
  /\ leadData = NoLead
  /\ tokenCount = 0
  /\ verificationCode = <<>>
  /\ codeCount = 0
  /\ lofty = "none" /\ loftyCalls = 0 /\ loftyPayload = <<>>
  /\ resend = "none" /\ resendCalls = 0 /\ resendPayload = <<>>
  /\ twilio = "none" /\ twilioCalls = 0 /\ twilioPayload = <<>>

\* The runtime invokes the handler with a request and a fresh response.
Receive ==
  /\ pc = "idle"
  /\ \E r \in Requests(variant) : req' = r
  /\ pc' = "handler"
  /\ UNCHANGED <<variant, codesSentTo, env, res, leadData, tokenCount,
                 verificationCode, codeCount,
                 lofty, loftyCalls, loftyPayload,
                 resend, resendCalls, resendPayload,
                 twilio, twilioCalls, twilioPayload>>

\* The invocation is over (its promise settled): nothing of it is kept, the
\* next invocation starts from scratch.
Finish ==
  /\ pc \in {"done", "threw"}
  /\ req' = NoRequest
  /\ pc' = "idle"
  /\ env' = EnvUnread
  /\ res' = NoResponse
  /\ leadData' = NoLead
  /\ tokenCount' = 0
  /\ verificationCode' = <<>>
  /\ codeCount' = 0
  /\ lofty' = "none" /\ loftyCalls' = 0 /\ loftyPayload' = <<>>
  /\ resend' = "none" /\ resendCalls' = 0 /\ resendPayload' = <<>>
  /\ twilio' = "none" /\ twilioCalls' = 0 /\ twilioPayload' = <<>>
  /\ UNCHANGED <<variant, codesSentTo>>

----------------------------------------------------------------------------
(* handler *)

\* mutant: GET is let through as well
MethodAllowed_AlsoGet(m) == m \in {"POST", "GET"}

MethodAllowed(m) == m = "POST"

\* mutant: an action that is not 'sendVerification' is taken for a submission
Route_DefaultSubmission(a) ==
  IF a = Str("sendVerification") THEN "verification" ELSE "submission"

\* the dispatch on `action` of the multiplexed variant
Route(a) ==
  IF a = Str("sendVerification") THEN "verification"
  ELSE IF a = Str("submitLead") THEN "submission"
  ELSE "invalid"

\* Method check, CORS headers and dispatch.  The multiplexed variant reads
\* `action` from req.body before its try block: with no body the TypeError
\* leaves the handler.
handler ==
  /\ pc = "handler"
  /\ IF ~MethodAllowed(req.method)
     THEN /\ res' = Send(res, 405, ErrorBody("Method not allowed"))
          /\ pc' = "done"
     ELSE LET r == SetHeaders(res, CorsHeaders) IN
          IF variant = "emailOnly"
          THEN /\ res' = r
               /\ pc' = "submission"
          ELSE IF ~req.hasBody
          THEN /\ res' = r
               /\ pc' = "threw"
          ELSE IF Route(req.body.action) # "invalid"
          THEN /\ res' = r
               /\ pc' = Route(req.body.action)
          ELSE /\ res' = Send(r, 400, ErrorBody("Invalid action"))
               /\ pc' = "done"
  /\ UNCHANGED <<variant, codesSentTo, req, env, leadData, tokenCount,
                 verificationCode, codeCount,
                 lofty, loftyCalls, loftyPayload,
                 resend, resendCalls, resendPayload,
                 twilio, twilioCalls, twilioPayload>>

----------------------------------------------------------------------------
(* handleLeadSubmission *)

\* mutant: a submission is refused unless a code was sent to its phone before
MissingRequiredFields_NeedsVerification(v, b) ==
  \/ ~Truthy(b.firstName)
  \/ ~Truthy(b.lastName)
  \/ ~Truthy(b.email)
  \/ (v = "multiplexed" /\ ~Truthy(b.phone))
  \/ (v = "multiplexed" /\ Truthy(b.phone) /\ b.phone[1] \notin codesSentTo)

\* mutant: lastName is not checked
MissingRequiredFields_NoLastName(v, b) ==
  \/ ~Truthy(b.firstName)
  \/ ~Truthy(b.email)
  \/ (v = "multiplexed" /\ ~Truthy(b.phone))

MissingRequiredFields(v, b) ==
  \/ ~Truthy(b.firstName)
  \/ ~Truthy(b.lastName)
  \/ ~Truthy(b.email)
  \/ (v = "multiplexed" /\ ~Truthy(b.phone))

\* only the e-mail-only variant checks the format of the e-mail
ValidatesEmailFormat(v) == v = "emailOnly"

\* [^\s@]+ : a non-empty stretch s[from..to] without whitespace and '@'
PlainRun(s, from, to) ==
  /\ from <= to
  /\ \A k \in from..to : s[k] \notin (Whitespace \cup {"@"})

\* mutant: the pattern without its `\.[^\s@]+` tail
emailRegexTest_NoDot(s) ==
  \E i \in 1..Len(s) :
    /\ s[i] = "@"
    /\ PlainRun(s, 1, i - 1)
    /\ PlainRun(s, i + 1, Len(s))

\* /^[^\s@]+@[^\s@]+\.[^\s@]+$/.test(s)
emailRegexTest(s) ==
  \E i \in 1..Len(s) : \E j \in 1..Len(s) :
    /\ s[i] = "@"
    /\ s[j] = "."
    /\ i < j
    /\ PlainRun(s, 1, i - 1)
    /\ PlainRun(s, i + 1, j - 1)
    /\ PlainRun(s, j + 1, Len(s))

generateAccessToken(ts, rs) == <<ts, "-", rs>>

DefaultGammaUrl(v) ==
  IF v = "emailOnly"
  THEN "https://new-builds-squamish-the--akehhlj.gamma.site/"
  ELSE "https://gamma.app/docs/Squamish-Neighbourhood-Guide-Your-Gateway-to-the-Outdoor-Capital--fe8mmxzefxjrz55"

\* process.env.GAMMA_URL || default
GammaUrl(v, e) == IF e = "set" THEN "GAMMA_URL" ELSE DefaultGammaUrl(v)

\* mutant: the token is left out of the link
AccessUrl_NoToken(g, tok) == <<g, "?ref=">>

\* `${gammaUrl}?ref=${accessToken}`
AccessUrl(g, tok) == <<g, "?ref=">> \o tok

LeadData(v, b, tok, url) ==
  [firstName |-> b.firstName, lastName |-> b.lastName, email |-> b.email,
   phone |-> IF v = "multiplexed" THEN b.phone ELSE Undefined,
   accessToken |-> tok, accessUrl |-> url]

\* leadData.phone.replace(/\D/g, '')
CleanPhone(p) == SelectSeq(p, LAMBDA c : c \in DigitChars)

FormattedPhone(p) == <<"+", "1">> \o CleanPhone(p)

\* mutant: the note carries a token of its own
LoftyPayload_FreshToken(v, ld) ==
  [firstName |-> ld.firstName, lastName |-> ld.lastName, email |-> ld.email,
   phone |-> IF v = "multiplexed"
             THEN Str(FormattedPhone(ld.phone[1])) ELSE Undefined,
   notes |-> <<"Access token: ">> \o generateAccessToken("ts", "r1")]

\* the JSON sent to the CRM
LoftyPayload(v, ld) ==
  [firstName |-> ld.firstName, lastName |-> ld.lastName, email |-> ld.email,
   phone |-> IF v = "multiplexed"
             THEN Str(FormattedPhone(ld.phone[1])) ELSE Undefined,
   notes |-> <<"Access token: ">> \o ld.accessToken]

generateEmailHTML(ld) == [greeting |-> ld.firstName, href |-> ld.accessUrl]

\* the JSON sent to the e-mail provider
ResendPayload(ld) == [to |-> ld.email, html |-> generateEmailHTML(ld)]

\* mutant: the CRM is called whether or not its key is configured
LoftyConfigured_Always(e) == TRUE

\* if (!loftyApiKey) return;
LoftyConfigured(e) == e = "set"

\* if (resendApiKey) / if (!resendApiKey) return;
ResendConfigured(e) == e = "set"

\* The synchronous stretch of handleLeadSubmission: validation, the access
\* grant, and the start of sendToLofty and sendAccessEmail up to their fetch.
handleLeadSubmission ==
  /\ pc = "submission"
  /\ IF ~req.hasBody
     THEN \* destructuring req.body throws inside handler's try
          /\ res' = Send(res, 500, ErrorBody("Internal server error"))
          /\ pc' = "done"
          /\ UNCHANGED <<env, leadData, tokenCount,
                         lofty, loftyCalls, loftyPayload,
                         resend, resendCalls, resendPayload>>
     ELSE IF MissingRequiredFields(variant, req.body)
     THEN /\ res' = Send(res, 400, ErrorBody("Missing required fields"))
          /\ pc' = "done"
          /\ UNCHANGED <<env, leadData, tokenCount,
                         lofty, loftyCalls, loftyPayload,
                         resend, resendCalls, resendPayload>>
     ELSE IF ValidatesEmailFormat(variant) /\ ~emailRegexTest(req.body.email[1])
     THEN /\ res' = Send(res, 400, ErrorBody("Invalid email format"))
          /\ pc' = "done"
          /\ UNCHANGED <<env, leadData, tokenCount,
                         lofty, loftyCalls, loftyPayload,
                         resend, resendCalls, resendPayload>>
     ELSE \E ts \in Timestamps, rs \in RandomStrs,
             g \in EnvValues, lk \in EnvValues, rk \in EnvValues :
          LET tok == generateAccessToken(ts, rs)
              ld  == LeadData(variant, req.body, tok,
                              AccessUrl(GammaUrl(variant, g), tok))
          IN  /\ env' = [env EXCEPT !["GAMMA_URL"] = g,
                                    !["LOFTY_API_KEY"] = lk,
                                    !["RESEND_API_KEY"] = rk]
              /\ leadData' = ld
              /\ tokenCount' = tokenCount + 1
              /\ IF LoftyConfigured(lk)
                 THEN /\ lofty' = "pending"
                      /\ loftyCalls' = loftyCalls + 1
                      /\ loftyPayload' = LoftyPayload(variant, ld)
                 ELSE /\ lofty' = "skipped"
                      /\ UNCHANGED <<loftyCalls, loftyPayload>>
              /\ IF ResendConfigured(rk)
                 THEN /\ resend' = "pending"
                      /\ resendCalls' = resendCalls + 1
                      /\ resendPayload' = ResendPayload(ld)
                 ELSE /\ resend' = "skipped"
                      /\ UNCHANGED <<resendCalls, resendPayload>>
              /\ pc' = "awaitAll"
              /\ UNCHANGED res
  /\ UNCHANGED <<variant, codesSentTo, req, verificationCode, codeCount,
                 twilio, twilioCalls, twilioPayload>>

\* mutant: a failed CRM call is issued once more
LoftyResponds_Retry ==
  /\ lofty = "pending"
  /\ \E o \in Outcomes :
       IF o \in Failed /\ loftyCalls < 2
       THEN lofty' = "pending" /\ loftyCalls' = loftyCalls + 1
       ELSE lofty' = o /\ UNCHANGED loftyCalls
  /\ UNCHANGED <<variant, codesSentTo, req, pc, env, res, leadData,
                 tokenCount, verificationCode, codeCount, loftyPayload,
                 resend, resendCalls, resendPayload,
                 twilio, twilioCalls, twilioPayload>>

\* the CRM answers (or the connection fails)
LoftyResponds ==
  /\ lofty = "pending"
  /\ \E o \in Outcomes : lofty' = o
  /\ UNCHANGED <<variant, codesSentTo, req, pc, env, res, leadData, tokenCount,
                 verificationCode, codeCount, loftyCalls, loftyPayload,
                 resend, resendCalls, resendPayload,
                 twilio, twilioCalls, twilioPayload>>

\* the e-mail provider answers (or the connection fails)
ResendResponds ==
  /\ resend = "pending"
  /\ \E o \in Outcomes : resend' = o
  /\ UNCHANGED <<variant, codesSentTo, req, pc, env, res, leadData, tokenCount,
                 verificationCode, codeCount, resendCalls, resendPayload,
                 lofty, loftyCalls, loftyPayload,
                 twilio, twilioCalls, twilioPayload>>

\* mutant: the catch of sendToLofty rethrows
SendToLoftyPromise_Rethrows(v, c) ==
  IF c = "pending" THEN "pending"
  ELSE IF c \in Failed THEN "rejected"
  ELSE "fulfilled"

\* the promise sendToLofty returns: its catch swallows every error
SendToLoftyPromise(v, c) ==
  IF c = "pending" THEN "pending" ELSE "fulfilled"

\* the promise sendAccessEmail returns: the multiplexed variant rethrows from
\* its catch, the e-mail-only variant logs and falls through
SendAccessEmailPromise(v, c) ==
  IF c = "pending" THEN "pending"
  ELSE IF c \in Failed /\ v = "multiplexed" THEN "rejected"
  ELSE "fulfilled"

\* mutant: Promise.race, settled by whichever promise settles first
PromiseAll_Race(p1, p2) ==
  IF "rejected" \in {p1, p2} THEN "rejected"
  ELSE IF "fulfilled" \in {p1, p2} THEN "fulfilled"
  ELSE "pending"

\* Promise.all of two promises
PromiseAll(p1, p2) ==
  IF "rejected" \in {p1, p2} THEN "rejected"
  ELSE IF p1 = "fulfilled" /\ p2 = "fulfilled" THEN "fulfilled"
  ELSE "pending"

\* handleLeadSubmission resumes after `await Promise.all([...])`
PromiseAllSettles ==
  /\ pc = "awaitAll"
  /\ LET p == PromiseAll(SendToLoftyPromise(variant, lofty),
                         SendAccessEmailPromise(variant, resend))
     IN  /\ p # "pending"
         /\ res' = IF p = "fulfilled"
                   THEN Send(res, 200,
                             [success |-> TRUE,
                              accessUrl |-> leadData.accessUrl,
                              message |-> "Lead processed successfully"])
                   ELSE Send(res, 500, ErrorBody("Failed to process lead"))
  /\ pc' = "done"
  /\ UNCHANGED <<variant, codesSentTo, req, env, leadData, tokenCount,
                 verificationCode, codeCount,
                 lofty, loftyCalls, loftyPayload,
                 resend, resendCalls, resendPayload,
                 twilio, twilioCalls, twilioPayload>>

----------------------------------------------------------------------------
(* handlePhoneVerification *)

\* the values of Math.random() drawn: both ends of [0, 1) and its middle
RandomNumerators == {0, 1, RandDenom \div 2, RandDenom - 2, RandDenom - 1}

\* mutant: the offset that makes the code six digits long is missing
VerificationCode_NoOffset(k) == (k * 900000) \div RandDenom

\* Math.floor(100000 + Math.random() * 900000), Math.random() = k / RandDenom
VerificationCode(k) == 100000 + ((k * 900000) \div RandDenom)

DecimalDigits == <<"0", "1", "2", "3", "4", "5", "6", "7", "8", "9">>

\* Number.prototype.toString() of a non-negative integer
RECURSIVE NumberToString(_)
NumberToString(n) ==
  IF n < 10 THEN <<DecimalDigits[n + 1]>>
  ELSE Append(NumberToString(n \div 10), DecimalDigits[(n % 10) + 1])

\* mutant: only the presence of the phone is checked
InvalidPhone_NoLength(p) == ~Truthy(p)

\* !phone || phone.length !== 10
InvalidPhone(p) == ~Truthy(p) \/ Len(p[1]) # PhoneLen

\* mutant: the account id alone switches the SMS provider on
TwilioConfigured_SidOnly(sid, tokn, from) == sid = "set"

\* accountSid && authToken && twilioPhone
TwilioConfigured(sid, tokn, from) == sid = "set" /\ tokn = "set" /\ from = "set"

\* mutant: the destination lacks the '+1' prefix
TwilioPayload_NoPrefix(p, code) == [To |-> p, Body |-> code]

\* params.append('To', `+1${phone}`); the Body carries the code
TwilioPayload(p, code) == [To |-> <<"+", "1">> \o p, Body |-> code]

handlePhoneVerification ==
  /\ pc = "verification"
  /\ IF InvalidPhone(req.body.phone)
     THEN /\ res' = Send(res, 400, ErrorBody("Invalid phone number"))
          /\ pc' = "done"
          /\ UNCHANGED <<env, verificationCode, codeCount, codesSentTo,
                         twilio, twilioCalls, twilioPayload>>
     ELSE \E k \in RandomNumerators,
             sid \in EnvValues, tokn \in EnvValues, from \in EnvValues :
          LET code == NumberToString(VerificationCode(k)) IN
          /\ verificationCode' = code
          /\ codeCount' = codeCount + 1
          /\ codesSentTo' = codesSentTo \cup {req.body.phone[1]}
          /\ env' = [env EXCEPT !["TWILIO_ACCOUNT_SID"] = sid,
                                !["TWILIO_AUTH_TOKEN"] = tokn,
                                !["TWILIO_PHONE_NUMBER"] = from]
          /\ IF TwilioConfigured(sid, tokn, from)
             THEN /\ twilio' = "pending"
                  /\ twilioCalls' = twilioCalls + 1
                  /\ twilioPayload' = TwilioPayload(req.body.phone[1], code)
                  /\ pc' = "awaitTwilio"
                  /\ UNCHANGED res
             ELSE /\ res' = Send(res, 200,
                                 [success |-> TRUE, code |-> code,
                                  message |-> "Verification code sent (demo mode)"])
                  /\ pc' = "done"
                  /\ UNCHANGED <<twilio, twilioCalls, twilioPayload>>
  /\ UNCHANGED <<variant, req, leadData, tokenCount,
                 lofty, loftyCalls, loftyPayload,
                 resend, resendCalls, resendPayload>>

\* the SMS provider answers (or the connection fails)
TwilioResponds ==
  /\ twilio = "pending"
  /\ \E o \in Outcomes : twilio' = o
  /\ UNCHANGED <<variant, codesSentTo, req, pc, env, res, leadData, tokenCount,
                 verificationCode, codeCount, twilioCalls, twilioPayload,
                 lofty, loftyCalls, loftyPayload,
                 resend, resendCalls, resendPayload>>

\* mutant: the catch lacks its `return`, so after the 500 the demo-mode
\* response is written as well
VerificationResumes_FallsThrough ==
  /\ pc = "awaitTwilio"
  /\ twilio # "pending"
  /\ res' = IF twilio = "ok"
            THEN Send(res, 200, [success |-> TRUE,
                                 message |-> "Verification code sent"])
            ELSE Send(Send(res, 500,
                           ErrorBody("Failed to send verification code")),
                      200, [success |-> TRUE, code |-> verificationCode,
                            message |-> "Verification code sent (demo mode)"])
  /\ pc' = "done"
  /\ UNCHANGED <<variant, codesSentTo, req, env, leadData, tokenCount,
                 verificationCode, codeCount,
                 lofty, loftyCalls, loftyPayload,
                 resend, resendCalls, resendPayload,
                 twilio, twilioCalls, twilioPayload>>

\* mutant: the code is put into the response after the SMS was sent
VerificationResumes_LeaksCode ==
  /\ pc = "awaitTwilio"
  /\ twilio # "pending"
  /\ res' = IF twilio = "ok"
            THEN Send(res, 200, [success |-> TRUE, code |-> verificationCode,
                                 message |-> "Verification code sent"])
            ELSE Send(res, 500, ErrorBody("Failed to send verification code"))
  /\ pc' = "done"
  /\ UNCHANGED <<variant, codesSentTo, req, env, leadData, tokenCount,
                 verificationCode, codeCount,
                 lofty, loftyCalls, loftyPayload,
                 resend, resendCalls, resendPayload,
                 twilio, twilioCalls, twilioPayload>>

\* handlePhoneVerification resumes after `await fetch(twilioUrl, ...)`
VerificationResumes ==
  /\ pc = "awaitTwilio"
  /\ twilio # "pending"
  /\ res' = IF twilio = "ok"
            THEN Send(res, 200, [success |-> TRUE,
                                 message |-> "Verification code sent"])
            ELSE Send(res, 500, ErrorBody("Failed to send verification code"))
  /\ pc' = "done"
  /\ UNCHANGED <<variant, codesSentTo, req, env, leadData, tokenCount,
                 verificationCode, codeCount,
                 lofty, loftyCalls, loftyPayload,
                 resend, resendCalls, resendPayload,
                 twilio, twilioCalls, twilioPayload>>

----------------------------------------------------------------------------
Next ==
  \/ Receive
  \/ handler
  \/ handleLeadSubmission
  \/ LoftyResponds
  \/ ResendResponds
  \/ PromiseAllSettles
  \/ handlePhoneVerification
  \/ TwilioResponds
  \/ VerificationResumes
  \/ Finish


Spec == Init /\ [][Next]_vars

----------------------------------------------------------------------------
(* Properties *)

Responded == res.sends > 0

NoOutboundCalls == loftyCalls = 0 /\ resendCalls = 0 /\ twilioCalls = 0

\* the request is routed to handleLeadSubmission with a body to read
SubmissionRequest ==
  /\ req.method = "POST"
  /\ req.hasBody
  /\ (variant = "multiplexed" => req.body.action = Str("submitLead"))

SuccessWithAccessUrl ==
  /\ res.status = 200
  /\ res.body = [success |-> TRUE, accessUrl |-> leadData.accessUrl,
                 message |-> "Lead processed successfully"]

\* C1: in every variant, when the e-mail provider key is configured and the
\* e-mail provider call fails, the response is a 500, whatever the CRM did.
C1_EmailFailureIs500 ==
  (env["RESEND_API_KEY"] = "set" /\ resend \in Failed /\ Responded)
    => res.status = 500

\* C2: when the CRM call fails and the e-mail dispatch succeeds, the response
\* is 200 with success=true and the accessUrl; sendToLofty's promise is never
\* rejected.
C2_CrmFailureStillSucceeds ==
  /\ SendToLoftyPromise(variant, lofty) # "rejected"
  /\ (lofty \in Failed /\ resend = "ok" /\ Responded) => SuccessWithAccessUrl

C2_Witness ==
  /\ lofty \in Failed /\ resend = "ok" /\ Responded /\ res.status = 200

\* C3: once the e-mail dispatch of a validated submission has completed
\* successfully, the handler can send its response: it does not wait for the
\* CRM call, which may still be pending or never complete.
C3_ResponseDoesNotWaitForCrm ==
  (pc = "awaitAll" /\ resend = "ok") => ENABLED PromiseAllSettles

\* a required field of the submission is missing or empty
RequiredFieldMissing ==
  \/ ~Truthy(req.body.firstName)
  \/ ~Truthy(req.body.lastName)
  \/ ~Truthy(req.body.email)
  \/ (variant = "multiplexed" /\ ~Truthy(req.body.phone))

\* C4: a submission with a required field missing or empty is answered with
\* 400; at no point of the request is an outbound call issued or an access
\* token generated.
C4_MissingFieldIs400 ==
  (SubmissionRequest /\ RequiredFieldMissing) =>
    /\ NoOutboundCalls
    /\ tokenCount = 0
    /\ leadData = NoLead
    /\ (Responded => res.status = 400)
    /\ (pc = "done" => Responded)

C4_Witness ==
  /\ SubmissionRequest /\ RequiredFieldMissing
  /\ Responded /\ res.status = 400

HasAt(s) == \E i \in 1..Len(s) : s[i] = "@"
HasWhitespace(s) == \E i \in 1..Len(s) : s[i] \in Whitespace
FirstAt(s) == CHOOSE i \in 1..Len(s) : s[i] = "@" /\ \A k \in 1..(i - 1) : s[k] # "@"
NoDotAfterAt(s) == HasAt(s) /\ \A j \in (FirstAt(s) + 1)..Len(s) : s[j] # "."

\* no '@', no '.' after the '@', or embedded whitespace
MalformedEmail(s) == ~HasAt(s) \/ NoDotAfterAt(s) \/ HasWhitespace(s)

\* a submission whose e-mail is malformed, the other required fields present
MalformedEmailSubmission ==
  /\ SubmissionRequest
  /\ Truthy(req.body.firstName)
  /\ Truthy(req.body.lastName)
  /\ (variant = "multiplexed" => Truthy(req.body.phone))
  /\ Truthy(req.body.email)
  /\ MalformedEmail(req.body.email[1])

RejectedBeforeAnyCall ==
  /\ lofty = "none" /\ loftyCalls = 0
  /\ resend = "none" /\ resendCalls = 0
  /\ tokenCount = 0
  /\ (Responded => res.status = 400)
  /\ (pc = "done" => Responded)

\* C5 as stated: in each variant, a submission with a malformed e-mail is
\* answered with 400 and no CRM or e-mail call is made.
C5_MalformedEmailIs400_EveryVariant ==
  MalformedEmailSubmission => RejectedBeforeAnyCall

\* C5 amended: in the variant that validates the e-mail format (the
\* e-mail-only variant), a submission with a malformed e-mail is answered
\* with 400 and no CRM or e-mail call is made.
C5_MalformedEmailIs400 ==
  (variant = "emailOnly" /\ MalformedEmailSubmission) => RejectedBeforeAnyCall

C5_Witness ==
  /\ variant = "emailOnly" /\ MalformedEmailSubmission
  /\ Responded /\ res.status = 400
  /\ res.body = ErrorBody("Invalid email format")

\* non-empty firstName and lastName, well-formed e-mail
ValidSubmission ==
  /\ SubmissionRequest
  /\ Truthy(req.body.firstName)
  /\ Truthy(req.body.lastName)
  /\ Truthy(req.body.email)
  /\ emailRegexTest(req.body.email[1])

\* 200, success=true, accessUrl = base URL, '?ref=', the one token generated
SuccessWithTokenLink ==
  /\ res.status = 200
  /\ res.body.success = TRUE
  /\ tokenCount = 1
  /\ leadData.accessToken # <<>>
  /\ res.body.accessUrl =
       <<IF env["GAMMA_URL"] = "set" THEN "GAMMA_URL"
         ELSE DefaultGammaUrl(variant), "?ref=">> \o leadData.accessToken

\* C6 as stated: every valid submission is answered with 200, success=true
\* and the accessUrl made of the base URL, '?ref=' and the generated token.
C6_ValidSubmissionSucceeds_Always ==
  (ValidSubmission /\ Responded) => SuccessWithTokenLink

\* C6 amended: every valid submission (with a non-empty phone in the variant
\* that requires it) whose e-mail dispatch does not fail is answered with
\* 200, success=true and the accessUrl made of the base URL, '?ref=' and the
\* generated token.
C6_ValidSubmissionSucceeds ==
  (/\ ValidSubmission
   /\ (variant = "multiplexed" => Truthy(req.body.phone))
   /\ resend \notin Failed
   /\ Responded) => SuccessWithTokenLink

C6_Witness ==
  /\ ValidSubmission
  /\ (variant = "multiplexed" => Truthy(req.body.phone))
  /\ resend = "ok"
  /\ Responded /\ res.status = 200

\* C7: with neither the CRM key nor the e-mail provider key configured, a
\* validated submission gets 200 with success=true and the accessUrl, and no
\* outbound call is issued: both integrations are skipped.
C7_NoKeysNoCalls ==
  (env["LOFTY_API_KEY"] = "unset" /\ env["RESEND_API_KEY"] = "unset") =>
    /\ NoOutboundCalls
    /\ lofty = "skipped" /\ resend = "skipped"
    /\ pc \in {"awaitAll", "done"}
    /\ (pc = "done" => Responded)
    /\ (Responded => SuccessWithAccessUrl /\ leadData.accessUrl # <<>>)

C7_Witness ==
  /\ env["LOFTY_API_KEY"] = "unset" /\ env["RESEND_API_KEY"] = "unset"
  /\ Responded /\ res.status = 200

\* C8: every response sent, on every path, carries the three permissive
\* cross-origin headers.
C8_CorsOnEveryResponse ==
  Responded => CorsHeaders \subseteq res.headers

\* C9: every exception raised after the method check, also while reading the
\* request body, is answered with the generic 500; none leaves the handler
\* without a response.
C9_ExceptionsAnsweredWith500 ==
  /\ pc # "threw"
  /\ (req.method = "POST" /\ ~req.hasBody /\ pc = "done") =>
       (Responded /\ res.status = 500
        /\ res.body = ErrorBody("Internal server error"))

\* C10: a request whose method is not POST is answered with 405 and an
\* error body, and nothing else happens for it.
C10_NonPostIs405 ==
  (req.method \notin {"POST", "none"}) =>
    /\ pc \in {"handler", "done"}
    /\ env = EnvUnread
    /\ tokenCount = 0 /\ codeCount = 0
    /\ leadData = NoLead
    /\ NoOutboundCalls
    /\ (pc = "done" => Responded)
    /\ (Responded => res.status = 405 /\ res.body = ErrorBody("Method not allowed"))

C10_Witness ==
  /\ req.method \notin {"POST", "none"}
  /\ Responded /\ res.status = 405
\* a POST with a body to the multiplexed variant
MultiplexedPost ==
  /\ variant = "multiplexed"
  /\ req.method = "POST"
  /\ req.hasBody

\* C11: in the multiplexed variant a POST whose action is neither
\* 'sendVerification' nor 'submitLead' (a missing action included) is
\* answered with 400; neither path runs, no code or token is generated and no
\* outbound call is issued.
C11_UnknownActionIs400 ==
  (/\ MultiplexedPost
   /\ req.body.action \notin {Str("sendVerification"), Str("submitLead")}) =>
    /\ pc \in {"handler", "done"}
    /\ env = EnvUnread
    /\ tokenCount = 0 /\ codeCount = 0
    /\ leadData = NoLead /\ verificationCode = <<>>
    /\ NoOutboundCalls
    /\ (pc = "done" => Responded)
    /\ (Responded => res.status = 400 /\ res.body = ErrorBody("Invalid action"))

C11_Witness ==
  /\ MultiplexedPost
  /\ req.body.action \in {Undefined, Str("other")}
  /\ Responded /\ res.status = 400

VerificationRequest ==
  MultiplexedPost /\ req.body.action = Str("sendVerification")

\* the phone is a string of exactly PhoneLen characters
PhoneHasTenChars ==
  req.body.phone # Undefined /\ Len(req.body.phone[1]) = PhoneLen

\* C12: a sendVerification request whose phone is missing, empty or not
\* exactly 10 characters long is answered with 400 and no SMS provider call
\* is issued; the SMS credentials are not even read.
C12_BadPhoneIs400 ==
  (VerificationRequest /\ ~PhoneHasTenChars) =>
    /\ pc \in {"handler", "verification", "done"}
    /\ twilio = "none" /\ twilioCalls = 0
    /\ codeCount = 0
    /\ env = EnvUnread
    /\ (pc = "done" => Responded)
    /\ (Responded => res.status = 400 /\ res.body = ErrorBody("Invalid phone number"))

C12_Witness ==
  /\ VerificationRequest
  /\ req.body.phone # Undefined
  /\ Len(req.body.phone[1]) \notin {0, PhoneLen}
  /\ Responded /\ res.status = 400

TwilioEnvNames ==
  {"TWILIO_ACCOUNT_SID", "TWILIO_AUTH_TOKEN", "TWILIO_PHONE_NUMBER"}

\* C13: a sendVerification request with a valid phone, with any of the three
\* SMS credentials absent, is answered with 200, success=true and the
\* generated code in the body, and no outbound SMS call is issued.
C13_DemoModeReturnsCode ==
  (/\ VerificationRequest /\ PhoneHasTenChars
   /\ \E n \in TwilioEnvNames : env[n] = "unset") =>
    /\ NoOutboundCalls
    /\ twilio = "none"
    /\ pc = "done"
    /\ Responded
    /\ res.status = 200
    /\ codeCount = 1
    /\ verificationCode # <<>>
    /\ res.body = [success |-> TRUE, code |-> verificationCode,
                   message |-> "Verification code sent (demo mode)"]

C13_Witness ==
  /\ VerificationRequest /\ PhoneHasTenChars
  /\ env["TWILIO_ACCOUNT_SID"] = "set"
  /\ env["TWILIO_AUTH_TOKEN"] = "unset"
  /\ Responded /\ res.status = 200

\* C14: a sendVerification request with a valid phone and all three SMS
\* credentials configured issues exactly one SMS send request, to '+1'
\* followed by the phone; when that request fails the response is 500, never
\* the demo-mode success.
C14_SmsFailureIs500 ==
  (/\ VerificationRequest /\ PhoneHasTenChars
   /\ \A n \in TwilioEnvNames : env[n] = "set") =>
    /\ twilioCalls = 1
    /\ twilio # "none"
    /\ twilioPayload.To = <<"+", "1">> \o req.body.phone[1]
    /\ twilioPayload.Body = verificationCode
    /\ (Responded => twilio # "pending")
    /\ (pc = "done" => Responded)
    /\ (Responded /\ twilio \in Failed) =>
         /\ res.status = 500
         /\ res.body = ErrorBody("Failed to send verification code")

C14_Witness ==
  /\ VerificationRequest /\ PhoneHasTenChars
  /\ \A n \in TwilioEnvNames : env[n] = "set"
  /\ twilioCalls = 1
  /\ twilio \in Failed
  /\ Responded /\ res.status = 500

DigitValue(c) == (CHOOSE i \in 1..10 : DecimalDigits[i] = c) - 1

RECURSIVE DecimalValue(_)
DecimalValue(s) ==
  IF s = <<>> THEN 0
  ELSE 10 * DecimalValue(SubSeq(s, 1, Len(s) - 1)) + DigitValue(s[Len(s)])

\* C15: every verification code generated is an integer within
\* [100000, 999999]; its decimal string has exactly 6 digits.
C15_CodeHasSixDigits ==
  (codeCount > 0) =>
    /\ Len(verificationCode) = 6
    /\ \A i \in 1..Len(verificationCode) : verificationCode[i] \in DigitChars
    /\ DecimalValue(verificationCode) >= 100000
    /\ DecimalValue(verificationCode) <= 999999

C15_Witness ==
  /\ codeCount = 1
  /\ Responded
  /\ DecimalValue(verificationCode) > 990000
\* a POST that reaches handleLeadSubmission
ReachesSubmission ==
  /\ req.method = "POST"
  /\ (variant = "multiplexed" =>
        req.hasBody /\ req.body.action = Str("submitLead"))

\* the status of the response to a submission, from the request itself and
\* the outcome of its own e-mail call
SubmissionStatus ==
  IF ~req.hasBody THEN 500
  ELSE IF RequiredFieldMissing THEN 400
  ELSE IF variant = "emailOnly" /\ ~emailRegexTest(req.body.email[1]) THEN 400
  ELSE IF variant = "multiplexed" /\ resend \in Failed THEN 500
  ELSE 200

\* C16: verification is stateless.  The response to a submission is
\* determined by the request and its own calls, whatever verification
\* requests came before it (codesSentTo); an invocation starts with nothing
\* left by an earlier one.
C16_SubmissionIgnoresHistory ==
  /\ (ReachesSubmission /\ Responded) =>
       /\ res.status = SubmissionStatus
       /\ (res.status = 200 => SuccessWithAccessUrl)
  /\ (pc \in {"idle", "handler"}) =>
       /\ env = EnvUnread /\ res = NoResponse /\ leadData = NoLead
       /\ tokenCount = 0 /\ codeCount = 0 /\ verificationCode = <<>>
       /\ lofty = "none" /\ resend = "none" /\ twilio = "none"
       /\ NoOutboundCalls

\* a lead submitted successfully although no code was ever requested
C16_Witness ==
  /\ variant = "multiplexed"
  /\ SubmissionRequest
  /\ codesSentTo = {}
  /\ Responded /\ res.status = 200
\* C17: within one validated submission the CRM call and the e-mail call run
\* concurrently: both are started before the completion of either is
\* awaited, neither waits for the other, and the response is the same for
\* every order in which they complete (it depends on the outcomes only).
C17_CallsRunConcurrently ==
  /\ (pc = "awaitAll") => (lofty # "none" /\ resend # "none")
  /\ (lofty \in Outcomes) => (resend # "none")
  /\ (resend \in Outcomes) => (lofty # "none")
  /\ (lofty = "pending") => ENABLED LoftyResponds
  /\ (resend = "pending") => ENABLED ResendResponds
  /\ (tokenCount = 1 /\ Responded) =>
       res.status = IF variant = "multiplexed" /\ resend \in Failed
                    THEN 500 ELSE 200

\* both calls in flight at once while the handler awaits them
C17_Witness ==
  /\ pc = "awaitAll"
  /\ lofty = "pending" /\ loftyCalls = 1
  /\ resend = "pending" /\ resendCalls = 1

\* C18: no outbound call is retried: in one request at most one request goes
\* to the CRM endpoint, one to the e-mail endpoint and one to the SMS
\* endpoint, also when the call fails.
C18_NoRetries ==
  /\ loftyCalls <= 1 /\ resendCalls <= 1 /\ twilioCalls <= 1
  /\ (lofty \in Failed) => loftyCalls = 1
  /\ (resend \in Failed) => resendCalls = 1
  /\ (twilio \in Failed) => twilioCalls = 1

C18_Witness ==
  /\ lofty \in Failed /\ loftyCalls = 1
  /\ resend \in Failed /\ resendCalls = 1
  /\ pc = "done" /\ Responded

\* the token of `${gammaUrl}?ref=${accessToken}`
TokenOfUrl(u) == SubSeq(u, 3, Len(u))
\* the token of the CRM note
TokenOfNote(n) == SubSeq(n, 2, Len(n))

\* C19: within one submission the access token is generated exactly once and
\* the same token is in the accessUrl returned, in the link of the e-mail and
\* in the note of the CRM payload.
C19_OneTokenEverywhere ==
  /\ tokenCount <= 1
  /\ (pc \in {"awaitAll"}) => tokenCount = 1
  /\ (tokenCount = 1) => leadData.accessToken # <<>>
  /\ (loftyCalls > 0) =>
       TokenOfNote(loftyPayload.notes) = leadData.accessToken
  /\ (resendCalls > 0) =>
       TokenOfUrl(resendPayload.html.href) = leadData.accessToken
  /\ (tokenCount = 1 /\ Responded /\ res.status = 200) =>
       TokenOfUrl(res.body.accessUrl) = leadData.accessToken
  /\ (loftyCalls > 0 /\ resendCalls > 0) =>
       TokenOfNote(loftyPayload.notes) = TokenOfUrl(resendPayload.html.href)

C19_Witness ==
  /\ tokenCount = 1
  /\ loftyCalls = 1 /\ resendCalls = 1
  /\ Responded /\ res.status = 200
  /\ leadData.accessToken = generateAccessToken("ts", "r2")

\* the phone is a string of exactly PhoneLen digits
PhoneHasTenDigits ==
  /\ req.body.phone # Undefined
  /\ Len(req.body.phone[1]) = PhoneLen
  /\ \A i \in 1..Len(req.body.phone[1]) : req.body.phone[1][i] \in DigitChars

\* C20: in the variant that requires a phone, a submission whose phone is not
\* exactly 10 digits is rejected with 400 before any outbound call; only a
\* 10-digit phone reaches the CRM and e-mail calls.
C20_PhoneMustBeTenDigits ==
  (variant = "multiplexed" /\ SubmissionRequest /\ ~PhoneHasTenDigits) =>
    /\ lofty = "none" /\ loftyCalls = 0
    /\ resend = "none" /\ resendCalls = 0
    /\ (Responded => res.status = 400)
\* C21: an invocation sends at most one response, on every path; once its
\* response has been sent no new outbound call is started for it, and the
\* response is not written again.
C21_AtMostOneResponse ==
  [][/\ res'.sends <= 1
     /\ Responded =>
          /\ loftyCalls' <= loftyCalls
          /\ resendCalls' <= resendCalls
          /\ twilioCalls' <= twilioCalls
          /\ (pc' # "idle" => res' = res)]_vars

\* the response is out while a call of the invocation is still in flight
C21_Witness ==
  /\ res.sends = 1
  /\ pc = "done"
  /\ lofty = "pending"

\* C22: with all three SMS credentials configured no response to a
\* sendVerification request contains the verification code, whether the
\* provider call succeeded or failed; the code is in a response body only in
\* demo mode.
C22_CodeOnlyInDemoMode ==
  Responded =>
    /\ (VerificationRequest /\ \A n \in TwilioEnvNames : env[n] = "set") =>
         /\ "code" \notin DOMAIN res.body
         /\ twilio \in Outcomes
         /\ res.status = IF twilio = "ok" THEN 200 ELSE 500
    /\ ("code" \in DOMAIN res.body) =>
         /\ VerificationRequest
         /\ \E n \in TwilioEnvNames : env[n] = "unset"
         /\ twilioCalls = 0

C22_Witness ==
  /\ VerificationRequest
  /\ \A n \in TwilioEnvNames : env[n] = "set"
  /\ twilio = "ok"
  /\ Responded /\ res.status = 200
====
